---- MODULE Spec2Model ----
(***************************************************************************)
(* ECDSA with deterministic key generation (src/script.js).                *)
(*                                                                         *)
(* The curve is a 5-bit instance of the same shape as P-256: a prime field *)
(* P, coefficient A = P - 3, a generator G of prime order n with n < P and *)
(* cofactor 1.  Every operation below is the code's operation on these     *)
(* parameters.  BigInt values are TLA+ integers; the point at infinity,    *)
(* which the code writes null, is the record Null; an exception thrown by  *)
(* the code is a result record with threw = TRUE.                          *)
(***************************************************************************)
EXTENDS Integers, Sequences, FiniteSets, TLC

VARIABLES pc, seed, salt, iter, privateKeyEl, publicKeyEl, signatureEl, out

vars == <<pc, seed, salt, iter, privateKeyEl, publicKeyEl, signatureEl, out>>

-----------------------------------------------------------------------------
(* Curve parameters, script.js lines 2-9 *)

n == 17

P == 23

A == 20

B == 15

Null == [inf |-> TRUE, x |-> 0, y |-> 0]

Affine(px, py) == [inf |-> FALSE, x |-> px, y |-> py]

G == Affine(1, 6)

-----------------------------------------------------------------------------
(* Bounds of the explored inputs *)

MaxMsgLen == 1

MaxSeedLen == 2

MaxRandByte == 17

MaxIter == 3

MaxScalar == 50

MaxModulus == 24

MaxOperand == 50

MaxShortLen == 3

-----------------------------------------------------------------------------
(* Results of operations that may throw *)

Ok(v) == [threw |-> FALSE, val |-> v]

Threw == [threw |-> TRUE]

-----------------------------------------------------------------------------
(* BigInt operators: % and / truncate towards zero *)

JsRem(a, m) == IF a >= 0 THEN a % m ELSE -((-a) % m)

JsDiv(a, b) == IF a >= 0 THEN a \div b ELSE -((-a) \div b)

mod(a, m) == JsRem(JsRem(a, m) + m, m)

modSub(a, b, m) == mod(a - b, m)

modMult(a, b, p) == mod(a * b, p)

RECURSIVE modInvLoop(_, _, _, _)
modInvLoop(t, newT, r, newR) ==
    IF newR # 0
    THEN LET quotient == JsDiv(r, newR)
         IN  modInvLoop(newT, t - quotient * newT, newR, r - quotient * newR)
    ELSE [t |-> t, r |-> r]

(* modInv without line 227, "if (t < 0n) t += p" *)
modInvNoSignFix(a, p) ==
    IF a = 0 THEN Threw
    ELSE LET e == modInvLoop(0, 1, p, JsRem(a, p))
         IN  IF e.r > 1 THEN Threw ELSE Ok(e.t)

modInv(a, p) ==
    IF a = 0 THEN Threw
    ELSE LET e == modInvLoop(0, 1, p, JsRem(a, p))
         IN  IF e.r > 1 THEN Threw
             ELSE Ok(IF e.t < 0 THEN e.t + p ELSE e.t)

-----------------------------------------------------------------------------
(* Point algebra *)

(* lines 252-254: the sum from the slope lambda *)
pointFromSlope(p1, p2, lambda, x3) ==
    Ok(Affine(x3, mod(lambda * modSub(p1.x, x3, P) - p1.y, P)))

pointFromLambda(p1, p2, lambda) ==
    pointFromSlope(p1, p2, lambda, mod(lambda * lambda - p1.x - p2.x, P))

(* lines 243, 248: lambda = num * denom, where denom = modInv(..) may throw *)
pointFromQuotient(p1, p2, num, denom) ==
    IF denom.threw THEN Threw
    ELSE pointFromLambda(p1, p2, modMult(num, denom.val, P))

(* pointAdd without line 236, the case of mutually inverse points *)
pointAddNoInverse(p1, p2) ==
    IF p1.inf THEN Ok(p2)
    ELSE IF p2.inf THEN Ok(p1)
    ELSE IF p1.x = p2.x /\ p1.y = p2.y
    THEN pointFromQuotient(p1, p2, 3 * mod(p1.x * p1.x, P) + A,
                           modInv(2 * p1.y, P))
    ELSE pointFromQuotient(p1, p2, modSub(p2.y, p1.y, P),
                           modInv(modSub(p2.x, p1.x, P), P))

pointAdd(p1, p2) ==
    IF p1.inf THEN Ok(p2)
    ELSE IF p2.inf THEN Ok(p1)
    ELSE IF p1.x = p2.x /\ mod(p1.y + p2.y, P) = 0 THEN Ok(Null)
    ELSE IF p1.x = p2.x /\ p1.y = p2.y
    THEN pointFromQuotient(p1, p2, 3 * mod(p1.x * p1.x, P) + A,
                           modInv(2 * p1.y, P))
    ELSE pointFromQuotient(p1, p2, modSub(p2.y, p1.y, P),
                           modInv(modSub(p2.x, p1.x, P), P))

(* lines 263-269: one iteration of the loop, then the rest of it *)
RECURSIVE pointMultLoop(_, _, _)
pointMultStep(k, added, doubled) ==
    IF added.threw \/ doubled.threw THEN Threw
    ELSE pointMultLoop(k \div 2, added.val, doubled.val)

pointMultLoop(k, result, addend) ==
    IF k > 0
    THEN pointMultStep(k,
                       IF k % 2 = 1 THEN pointAdd(result, addend) ELSE Ok(result),
                       pointAdd(addend, addend))
    ELSE Ok(result)

pointMult(k, point) == pointMultLoop(k, Null, point)

validatePoint(point) ==
    IF point.inf THEN TRUE
    ELSE LET lhs == mod(point.y * point.y, P)
             rhs == mod(point.x * point.x * point.x + A * point.x + B, P)
         IN  lhs = rhs

-----------------------------------------------------------------------------
(* Hexadecimal text.  A string of hex digits is the sequence of its digit  *)
(* values: 0..9 are the characters '0'..'9', 10..15 the characters         *)
(* 'a'..'f'.                                                               *)

RECURSIVE toString16(_)
toString16(v) ==
    IF v < 16 THEN <<v>> ELSE Append(toString16(v \div 16), v % 16)

padStart(s, width) ==
    IF Len(s) >= width THEN s
    ELSE [i \in 1..width |-> IF i <= width - Len(s) THEN 0
                             ELSE s[i - (width - Len(s))]]

RECURSIVE BigIntHex(_)
BigIntHex(s) ==
    IF Len(s) = 0 THEN 0
    ELSE 16 * BigIntHex(SubSeq(s, 1, Len(s) - 1)) + s[Len(s)]

RECURSIVE bytesToHex(_)
bytesToHex(bytes) ==
    IF Len(bytes) = 0 THEN <<>>
    ELSE padStart(toString16(Head(bytes)), 2) \o bytesToHex(Tail(bytes))

bytesToBigInt(bytes) == BigIntHex(bytesToHex(bytes))

-----------------------------------------------------------------------------
(* constantTimeCompare.  a[i] ^ b[i] applies ToInt32(ToNumber(.)) to each  *)
(* one-character string: a decimal digit is its value, any other character *)
(* is NaN and so 0.                                                        *)

ToInt32(ch) == IF ch < 10 THEN ch ELSE 0

RECURSIVE BitXor(_, _)
BitXor(a, b) ==
    IF a = 0 /\ b = 0 THEN 0
    ELSE 2 * BitXor(a \div 2, b \div 2) + (IF a % 2 # b % 2 THEN 1 ELSE 0)

RECURSIVE BitOr(_, _)
BitOr(a, b) ==
    IF a = 0 /\ b = 0 THEN 0
    ELSE 2 * BitOr(a \div 2, b \div 2) + (IF a % 2 = 1 \/ b % 2 = 1 THEN 1 ELSE 0)

(* The loop of lines 47-49, result |= a[i] ^ b[i] for i from lo to hi.  OR *)
(* is associative, so the range is folded by halves, which keeps the       *)
(* evaluation shallow for 64-digit strings.                                *)
RECURSIVE compareLoop(_, _, _, _)
compareLoop(a, b, lo, hi) ==
    IF lo > hi THEN 0
    ELSE IF lo = hi THEN BitXor(ToInt32(a[lo]), ToInt32(b[lo]))
    ELSE LET mid == (lo + hi) \div 2
         IN  BitOr(compareLoop(a, b, lo, mid), compareLoop(a, b, mid + 1, hi))

constantTimeCompare(a, b) ==
    IF Len(a) # Len(b) THEN FALSE
    ELSE compareLoop(a, b, 1, Len(a)) = 0

-----------------------------------------------------------------------------
(* Strings and the crypto provider.  A string is a sequence of code points *)
(* below 128, which TextEncoder encodes as themselves.  The digest is one  *)
(* byte standing for the 32 of SHA-256: a fixed function of the bytes.     *)

Chars == {0, 1}

RECURSIVE StringsOfLen(_)
StringsOfLen(len) ==
    IF len = 0 THEN {<<>>}
    ELSE {Append(s, c) : s \in StringsOfLen(len - 1), c \in Chars}

Strings(maxLen) == UNION {StringsOfLen(len) : len \in 0..maxLen}

encode(str) == str

RECURSIVE numeral(_)
numeral(bytes) ==
    IF Len(bytes) = 0 THEN 0
    ELSE 2 * numeral(SubSeq(bytes, 1, Len(bytes) - 1)) + bytes[Len(bytes)] + 1

digest(bytes) == <<(11 * numeral(bytes) + 1) % 256>>

RandomArrays == {<<b>> : b \in 0..MaxRandByte}

generateRandomK(array) == bytesToBigInt(array) % n

-----------------------------------------------------------------------------
(* The page.  #privateKey, #publicKey and #signature are elements of       *)
(* #output: absent, or present with their text.  The public key and the    *)
(* signature are JSON objects of two hex strings.                          *)

Absent == [present |-> FALSE]

HexWidth == 64

(* verifySignature, as a function of the message field and the two         *)
(* elements it reads.  exit names the statement that ends the call; reading *)
(* .textContent or .x of null throws a TypeError.                          *)

VerifyResult(threw, val, exit, xP) ==
    [threw |-> threw, val |-> val, exit |-> exit, xP |-> xP]

(* lines 179-190: xP = pointP.x % n, then the comparison of the two hex texts *)
verifyCompare(r, pointP) ==
    IF pointP.threw THEN VerifyResult(TRUE, FALSE, "pointAdd", 0)
    ELSE IF pointP.val.inf THEN VerifyResult(TRUE, FALSE, "pointP.x", 0)
    ELSE VerifyResult(FALSE,
                      constantTimeCompare(
                          padStart(toString16(r), HexWidth),
                          padStart(toString16(pointP.val.x % n), HexWidth)),
                      "compare", pointP.val.x % n)

(* line 176: pointP = pointAdd(u1*G, u2*Q) *)
verifyCombine(r, m1, m2) ==
    IF m1.threw \/ m2.threw THEN VerifyResult(TRUE, FALSE, "pointMult", 0)
    ELSE verifyCompare(r, pointAdd(m1.val, m2.val))

(* lines 169-176: w, u1, u2 and the two scalar multiples *)
verifyScalars(publicKey, r, msgHashBigInt, w) ==
    IF w.threw THEN VerifyResult(TRUE, FALSE, "modInv", 0)
    ELSE verifyCombine(r,
                       pointMult((msgHashBigInt * w.val) % n, G),
                       pointMult((r * w.val) % n, publicKey))

(* lines 159-169: the range check, the message hash and w *)
verifyRange(message, publicKey, r, s) ==
    IF r <= 0 \/ r >= n \/ s <= 0 \/ s >= n
    THEN VerifyResult(FALSE, FALSE, "range", 0)
    ELSE verifyScalars(publicKey, r, bytesToBigInt(digest(encode(message))),
                       modInv(s, n))

verifySignature(message, pubEl, sigEl) ==
    IF ~sigEl.present THEN VerifyResult(TRUE, FALSE, "signature.textContent", 0)
    ELSE IF ~pubEl.present THEN VerifyResult(FALSE, FALSE, "publicKeyElement", 0)
    ELSE verifyRange(message,
                     Affine(BigIntHex(pubEl.x), BigIntHex(pubEl.y)),
                     BigIntHex(sigEl.r), BigIntHex(sigEl.s))

(* signMessage lines 100-104: the signature from the private key, the      *)
(* message hash and the random bytes.                                      *)

SignResult(threw, k, r, s) == [threw |-> threw, k |-> k, r |-> r, s |-> s]

(* line 104: s from r and modInv(k, n) *)
signatureS(privateKey, messageHash, k, r, kInv) ==
    IF kInv.threw THEN SignResult(TRUE, k, r, 0)
    ELSE SignResult(FALSE, k, r,
                    mod(((messageHash + r * privateKey) * kInv.val) % n, n))

(* lines 101-102: rPoint = k*G and r = rPoint.x % n *)
signatureR(privateKey, messageHash, k, rPoint) ==
    IF rPoint.threw \/ rPoint.val.inf THEN SignResult(TRUE, k, 0, 0)
    ELSE signatureS(privateKey, messageHash, k, rPoint.val.x % n, modInv(k, n))

signatureK(privateKey, messageHash, k) ==
    signatureR(privateKey, messageHash, k, pointMult(k, G))

computeSignature(privateKey, messageHash, array) ==
    signatureK(privateKey, messageHash, generateRandomK(array))

NoVerify == VerifyResult(FALSE, FALSE, "not called", 0)

SignOut(message, exit, sig, verified) ==
    [op |-> "signMessage", message |-> message, exit |-> exit,
     sig |-> sig, verified |-> verified]

(* lines 108-117: the signature is written to the page and verified *)
signMessageWrite(message, sig, written) ==
    IF sig.threw
    THEN [signatureEl |-> Absent,
          out |-> SignOut(message, "threw", sig, NoVerify)]
    ELSE [signatureEl |-> written,
          out |-> SignOut(message, "signed", sig,
                          verifySignature(message, publicKeyEl, written))]

signMessageSigned(message, sig) ==
    signMessageWrite(message, sig,
                     [present |-> TRUE, r |-> toString16(sig.r),
                      s |-> toString16(sig.s)])

(* The handler's effect on #signature and its outcome. *)
signMessageEffect(message, array) ==
    IF ~privateKeyEl.present
    THEN [signatureEl |-> signatureEl,
          out |-> SignOut(message, "privateKey.textContent",
                          SignResult(TRUE, 0, 0, 0), NoVerify)]
    ELSE IF message = <<>>
    THEN [signatureEl |-> signatureEl,
          out |-> SignOut(message, "alert", SignResult(FALSE, 0, 0, 0), NoVerify)]
    ELSE signMessageSigned(message,
                           computeSignature(BigIntHex(privateKeyEl.text),
                                            bytesToBigInt(digest(encode(message))),
                                            array))

signMessage(message, array) ==
    /\ pc = "idle"
    /\ \E effect \in {signMessageEffect(message, array)} :
          /\ signatureEl' = effect.signatureEl
          /\ out' = effect.out
    /\ UNCHANGED <<pc, seed, salt, iter, privateKeyEl, publicKeyEl>>

(* generateKeys.  One step runs the handler up to the end of an iteration  *)
(* of its do-while loop; pc = "loop" while the loop goes on.               *)

candidate(sd, sl) == bytesToBigInt(digest(encode(sd \o sl))) % n

(* the loop condition of line 28 with "<" for "<=" *)
loopAgainNegativeOnly(privateKey) == privateKey < 0 \/ privateKey >= n

loopAgain(privateKey) == privateKey <= 0 \/ privateKey >= n

KeysOut(sd, sl, exit, iterations, privateKey) ==
    [op |-> "generateKeys", seed |-> sd, salt |-> sl, exit |-> exit,
     iterations |-> iterations, privateKey |-> privateKey]

(* lines 30-41: the public key is computed, checked and written *)
publishKeys(sd, sl, iterations, privateKey, publicKey) ==
    /\ pc' = "idle"
    /\ seed' = <<>>
    /\ salt' = <<>>
    /\ iter' = 0
    /\ IF publicKey.threw
       THEN /\ out' = KeysOut(sd, sl, "threw", iterations, privateKey)
            /\ UNCHANGED <<privateKeyEl, publicKeyEl, signatureEl>>
       ELSE IF publicKey.val.inf \/ ~validatePoint(publicKey.val)
       THEN /\ out' = KeysOut(sd, sl, "alert public key", iterations, privateKey)
            /\ UNCHANGED <<privateKeyEl, publicKeyEl, signatureEl>>
       ELSE /\ out' = KeysOut(sd, sl, "output", iterations, privateKey)
            /\ privateKeyEl' = [present |-> TRUE, text |-> toString16(privateKey)]
            /\ publicKeyEl' = [present |-> TRUE,
                               x |-> toString16(publicKey.val.x),
                               y |-> toString16(publicKey.val.y)]
            /\ signatureEl' = Absent

(* lines 23-28: one iteration of the do-while loop on the candidate *)
iterateOn(sd, sl, iterations, privateKey) ==
    IF loopAgain(privateKey)
    THEN /\ pc' = "loop"
         /\ seed' = sd
         /\ salt' = sl
         /\ iter' = iterations
         /\ out' = KeysOut(sd, sl, "loop", iterations, privateKey)
         /\ UNCHANGED <<privateKeyEl, publicKeyEl, signatureEl>>
    ELSE \E publicKey \in {pointMult(privateKey, G)} :
            publishKeys(sd, sl, iterations, privateKey, publicKey)

iterateKeys(sd, sl, iterations) ==
    \E privateKey \in {candidate(sd, sl)} :
        iterateOn(sd, sl, iterations, privateKey)

(* generateKeys with "&&" for "||" in the check of line 16 *)
generateKeysBothEmpty(sd, sl) ==
    /\ pc = "idle"
    /\ IF sd = <<>> /\ sl = <<>>
       THEN /\ out' = KeysOut(<<>>, <<>>, "alert input", 0, 0)
            /\ UNCHANGED <<pc, seed, salt, iter, privateKeyEl, publicKeyEl,
                           signatureEl>>
       ELSE iterateKeys(sd, sl, 1)

generateKeys(sd, sl) ==
    /\ pc = "idle"
    /\ IF sd = <<>> \/ sl = <<>>
       THEN /\ out' = KeysOut(<<>>, <<>>, "alert input", 0, 0)
            /\ UNCHANGED <<pc, seed, salt, iter, privateKeyEl, publicKeyEl,
                           signatureEl>>
       ELSE iterateKeys(sd, sl, 1)

generateKeysLoop ==
    /\ pc = "loop"
    /\ iterateKeys(seed, salt, IF iter < MaxIter THEN iter + 1 ELSE iter)

-----------------------------------------------------------------------------
Messages == Strings(MaxMsgLen)

Seeds == Strings(MaxSeedLen)

Init ==
    /\ pc = "idle"
    /\ seed = <<>>
    /\ salt = <<>>
    /\ iter = 0
    /\ privateKeyEl = Absent
    /\ publicKeyEl = Absent
    /\ signatureEl = Absent
    /\ out = [op |-> "none"]

Next ==
    \/ \E sd \in Seeds, sl \in Seeds : generateKeys(sd, sl)
    \/ generateKeysLoop
    \/ \E message \in Messages, array \in RandomArrays : signMessage(message, array)

Spec == Init /\ [][Next]_vars

(* Key derivation alone: the handlers that write #privateKey, #publicKey.  *)
NextKeys ==
    \/ \E sd \in Seeds, sl \in Seeds : generateKeys(sd, sl)
    \/ generateKeysLoop

SpecKeys == Init /\ [][NextKeys]_vars

-----------------------------------------------------------------------------
(* verifySignature on any page content: an on-curve public key and any     *)
(* signature text with r, s in 0..n, for any message.                      *)

CurvePoints ==
    {pt \in {Affine(px, py) : px \in 0..(P - 1), py \in 0..(P - 1)} :
        validatePoint(pt)}

callVerifySignature(message) ==
    /\ out.op = "none"
    /\ out' = [op |-> "verifySignature", message |-> message,
               res |-> verifySignature(message, publicKeyEl, signatureEl)]
    /\ UNCHANGED <<pc, seed, salt, iter, privateKeyEl, publicKeyEl, signatureEl>>

InitVerify ==
    /\ pc = "idle"
    /\ seed = <<>>
    /\ salt = <<>>
    /\ iter = 0
    /\ privateKeyEl = Absent
    /\ \E Q \in CurvePoints :
          publicKeyEl = [present |-> TRUE, x |-> toString16(Q.x),
                         y |-> toString16(Q.y)]
    /\ \E r \in 0..n, s \in 0..n :
          signatureEl = [present |-> TRUE, r |-> toString16(r),
                         s |-> toString16(s)]
    /\ out = [op |-> "none"]

NextVerify == \E message \in Messages : callVerifySignature(message)

SpecVerify == InitVerify /\ [][NextVerify]_vars

-----------------------------------------------------------------------------
(* The pure functions, each applied to inputs drawn by the initial state.  *)

InitPage ==
    /\ pc = "idle"
    /\ seed = <<>>
    /\ salt = <<>>
    /\ iter = 0
    /\ privateKeyEl = Absent
    /\ publicKeyEl = Absent
    /\ signatureEl = Absent

UnchangedPage ==
    UNCHANGED <<pc, seed, salt, iter, privateKeyEl, publicKeyEl, signatureEl>>

(* modInv *)
InitModInv ==
    /\ InitPage
    /\ \E a \in 0..MaxOperand, p \in 2..MaxModulus :
          out = [op |-> "call", a |-> a, p |-> p]

callModInv ==
    /\ out.op = "call"
    /\ out' = [op |-> "modInv", a |-> out.a, p |-> out.p,
               res |-> modInv(out.a, out.p)]
    /\ UnchangedPage

SpecModInv == InitModInv /\ [][callModInv]_vars

(* pointMult *)
InitPointMult ==
    /\ InitPage
    /\ \E k \in 0..MaxScalar, point \in CurvePoints \cup {Null} :
          out = [op |-> "call", k |-> k, point |-> point]

callPointMult ==
    /\ out.op = "call"
    /\ out' = [op |-> "pointMult", k |-> out.k, point |-> out.point,
               res |-> pointMult(out.k, out.point)]
    /\ UnchangedPage

SpecPointMult == InitPointMult /\ [][callPointMult]_vars

(* constantTimeCompare: equal strings, strings that differ in one digit,   *)
(* strings of different lengths.                                           *)
Fill(len, c) == [i \in 1..len |-> c]

HexDigits == 0..15

CompareLengths == (1..MaxShortLen) \cup {HexWidth}

InitCompare ==
    /\ InitPage
    /\ \/ \E len \in CompareLengths, c \in HexDigits, d \in HexDigits :
             \E pos \in 1..len :
                out = [op |-> "call", a |-> Fill(len, c),
                       b |-> [Fill(len, c) EXCEPT ![pos] = d]]
       \/ \E la \in CompareLengths, lb \in CompareLengths, c \in HexDigits :
             out = [op |-> "call", a |-> Fill(la, c), b |-> Fill(lb, c)]

callCompare ==
    /\ out.op = "call"
    /\ out' = [op |-> "constantTimeCompare", a |-> out.a, b |-> out.b,
               res |-> constantTimeCompare(out.a, out.b)]
    /\ UnchangedPage

SpecCompare == InitCompare /\ [][callCompare]_vars

-----------------------------------------------------------------------------
(* Reference notions used by the properties *)

Gcd(a, b) ==
    CHOOSE g \in 1..(IF a > b THEN a ELSE b) :
        /\ a % g = 0
        /\ b % g = 0
        /\ \A h \in (g + 1)..(IF a > b THEN a ELSE b) : ~(a % h = 0 /\ b % h = 0)

IsPrime(p) == p >= 2 /\ \A q \in 2..(p - 1) : p % q # 0

OnCurve(px, py) == (py * py) % P = (px * px * px + A * px + B) % P

(* The k-fold sum point + ... + point under pointAdd, as a result record. *)
RECURSIVE kFold(_, _)
kFold(k, point) ==
    IF k = 0 THEN Ok(Null)
    ELSE LET prev == kFold(k - 1, point)
         IN  IF prev.threw THEN Threw ELSE pointAdd(prev.val, point)

HashOf(message) == bytesToBigInt(digest(encode(message)))

(* The page's key pair and signature, read back from their text. *)
PagePrivateKey == BigIntHex(privateKeyEl.text)

PagePublicKey == Affine(BigIntHex(publicKeyEl.x), BigIntHex(publicKeyEl.y))

PageR == BigIntHex(signatureEl.r)

PageS == BigIntHex(signatureEl.s)

InRange(v) == 1 <= v /\ v <= n - 1

(* The point u1*G + u2*Q of a verification with in-range r and s. *)
CombinedPoint(message) ==
    LET w == modInv(PageS, n).val
        u1 == (HashOf(message) * w) % n
        u2 == (PageR * w) % n
    IN  pointAdd(pointMult(u1, G).val, pointMult(u2, PagePublicKey).val).val

Signing == out.op = "signMessage"

Verifying == out.op = "verifySignature"

-----------------------------------------------------------------------------
(* C1: round trip.  Signing a non-empty message with the page's key pair   *)
(* completes, and the verification of the signature it wrote returns true, *)
(* for every random draw.                                                  *)
C1_RoundTrip ==
    (Signing /\ privateKeyEl.present /\ out.message # <<>>) =>
        /\ out.exit = "signed"
        /\ ~out.verified.threw
        /\ out.verified.val = TRUE

(* C2: verification decision.  With r and s in [1, n-1] and the combined   *)
(* point P = u1*G + u2*Q not Infinity, verifySignature returns true if and *)
(* only if P.x mod n = r.                                                  *)
C2_VerifyDecision ==
    (Verifying /\ InRange(PageR) /\ InRange(PageS)
        /\ ~CombinedPoint(out.message).inf) =>
        /\ ~out.res.threw
        /\ out.res.val <=> (CombinedPoint(out.message).x % n = PageR)

(* C3: constantTimeCompare returns true on equal strings of hex digits and *)
(* false on strings that differ in one digit or in length.                 *)
C3_CompareContract ==
    (out.op = "constantTimeCompare") => (out.res <=> (out.a = out.b))

(* C4: a key pair is output only for a non-empty seed and salt; its        *)
(* private key d is in [1, n-1] and its public key is the affine point d*G *)
(* and satisfies the curve equation.                                       *)
C4_KeyPairValid ==
    /\ (out.op = "generateKeys" /\ out.exit = "output") =>
          /\ out.seed # <<>> /\ out.salt # <<>>
          /\ privateKeyEl.present /\ publicKeyEl.present
          /\ PagePrivateKey = out.privateKey
    /\ privateKeyEl.present =>
          /\ publicKeyEl.present
          /\ InRange(PagePrivateKey)
          /\ OnCurve(PagePublicKey.x, PagePublicKey.y)
          /\ Ok(PagePublicKey) = kFold(PagePrivateKey, G)
    /\ publicKeyEl.present => privateKeyEl.present

C4_Witness ==
    /\ out.op = "generateKeys" /\ out.exit = "output"
    /\ privateKeyEl.present
    /\ PagePrivateKey = n - 1
    /\ Len(out.seed) = 1 /\ Len(out.salt) = 1

(* C5: every signature written by signing has r and s in [1, n-1].         *)
C5_SignatureInRange ==
    (Signing /\ out.exit = "signed") =>
        /\ signatureEl.present
        /\ InRange(PageR)
        /\ InRange(PageS)

(* C6: the ephemeral scalar k of every signing operation is in [1, n-1].   *)
C6_EphemeralInRange ==
    (Signing /\ out.exit \in {"signed", "threw"}) => InRange(out.sig.k)

(* C7: modInv(a, p) for p >= 2, a >= 0 raises exactly when a is a multiple *)
(* of p or gcd(a, p) # 1, and otherwise returns t with 0 < t < p and       *)
(* a*t = 1 (mod p); for prime p and a in [1, p-1], modMult(a, t, p) = 1.   *)
C7_ModInv ==
    (out.op = "modInv") =>
        LET a == out.a
            p == out.p
            noInverse == a % p = 0 \/ Gcd(a, p) # 1
        IN  /\ noInverse <=> out.res.threw
            /\ ~out.res.threw =>
                  /\ 0 < out.res.val /\ out.res.val < p
                  /\ (a * out.res.val) % p = 1
            /\ (IsPrime(p) /\ 1 <= a /\ a <= p - 1) =>
                  /\ ~out.res.threw
                  /\ modMult(a, out.res.val, p) = 1

C7_Witness ==
    /\ out.op = "modInv"
    /\ out.a > out.p
    /\ ~out.res.threw
    /\ 2 * out.res.val > out.p

(* C8: pointMult(k, point) for an on-curve point or Infinity and k >= 0    *)
(* does not raise and returns the k-fold sum of point under pointAdd;      *)
(* pointMult(0, point) and pointMult(n, G) are Infinity.                   *)
C8_PointMult ==
    (out.op = "pointMult") =>
        /\ ~out.res.threw
        /\ out.res = kFold(out.k, out.point)
        /\ out.k = 0 => out.res.val = Null
        /\ (out.k = n /\ out.point = G) => out.res.val = Null

(* k = 2n + 13 = 101111b on the 17-point group: the running result 15*G   *)
(* meets the addend 32*G = 15*G, so the addition is a doubling.            *)
C8_Witness ==
    /\ out.op = "pointMult"
    /\ out.k = 2 * n + n - 4
    /\ out.point = G
    /\ ~out.res.threw
    /\ out.res.val = pointMult(n - 4, G).val

(* C9: verifySignature does not raise when r and s are in [1, n-1], and    *)
(* returns false when the combined point is Infinity; when r or s is out   *)
(* of range it returns false at the range check.                           *)
C9_VerifyNeverRaises ==
    Verifying =>
        IF InRange(PageR) /\ InRange(PageS)
        THEN /\ ~out.res.threw
             /\ CombinedPoint(out.message).inf => out.res.val = FALSE
        ELSE /\ ~out.res.threw
             /\ out.res.val = FALSE
             /\ out.res.exit = "range"

(* C10: the rejection loop of key derivation.  A call that reaches the     *)
(* loop leaves it after exactly one iteration when Hash(seed||salt) mod n  *)
(* is in [1, n-1], and otherwise stays in it; every retry computes the     *)
(* same candidate from the same seed and salt, so the loop is never left.  *)
C10_LoopBehaviour ==
    [][ /\ (pc = "idle" /\ out'.op = "generateKeys" /\ out'.exit # "alert input") =>
              IF InRange(HashOf(out'.seed \o out'.salt) % n)
              THEN /\ pc' = "idle"
                   /\ out'.iterations = 1
                   /\ out'.exit = "output"
              ELSE /\ pc' = "loop"
                   /\ iter' = 1
                   /\ seed' = out'.seed /\ salt' = out'.salt
        /\ pc = "loop" =>
              /\ HashOf(seed \o salt) % n = 0
              /\ pc' = "loop"
              /\ seed' = seed /\ salt' = salt
              /\ out'.privateKey = out.privateKey
              /\ iter' = (IF iter < MaxIter THEN iter + 1 ELSE iter)
      ]_vars

C10_Witness ==
    /\ pc = "loop"
    /\ iter >= 2
    /\ out.privateKey = 0
    /\ seed # <<>> /\ salt # <<>>
====
